---------------------------- MODULE Spec2Model ----------------------------
(***************************************************************************)
(* A model of the spectral kernel of                                       *)
(* src/src/NumericalAlgorithms/Spectral/Spectral.cpp: the generators of    *)
(* the spectral quantities, the function-local static caches that hold     *)
(* them, the public accessors, interpolation_matrix and the mesh dispatch. *)
(*                                                                         *)
(* Arithmetic is exact.  A double is modelled by a number of the field     *)
(* Q(sqrt(d)): the triple <<a, b, q>> stands for (a + b*sqrt(d)) / q with  *)
(* q > 0 and gcd(a, b, q) = 1.  The radicand d is fixed by the             *)
(* (quadrature, number of points) pair whose collocation points are used   *)
(* (Radicand); every quantity derived from those points lives in the same  *)
(* field.  <<0, 0, 0>> stands for a non-finite double (the result of a     *)
(* division by zero), and it propagates through every operation.           *)
(***************************************************************************)
EXTENDS Integers, Sequences, FiniteSets, TLC

(***************************************************************************)
(* Numbers                                                                 *)
(***************************************************************************)
\* A number of the field: <<a, b, q>>.
Number == Int \X Int \X Int

Abs[m \in Int] == IF m < 0 THEN -m ELSE m

Gcd[m \in Int, n \in Int] == IF n = 0 THEN Abs[m] ELSE Gcd[n, m % n]

NaN == <<0, 0, 0>>

IsFinite(x) == x[3] # 0

Norm[a \in Int, b \in Int, q \in Int] ==
  IF q = 0 THEN NaN
  ELSE LET g == Gcd[Gcd[Abs[a], Abs[b]], Abs[q]]
           s == IF q < 0 THEN -1 ELSE 1
       IN  <<(s * a) \div g, (s * b) \div g, (s * q) \div g>>

Rat[a \in Int, q \in Int] == Norm[a, 0, q]

Zero == <<0, 0, 1>>

One == <<1, 0, 1>>

NAdd[x \in Number, y \in Number] ==
  Norm[x[1] * y[3] + y[1] * x[3], x[2] * y[3] + y[2] * x[3], x[3] * y[3]]

NNeg[x \in Number] == <<-x[1], -x[2], x[3]>>

NSub[x \in Number, y \in Number] == NAdd[x, NNeg[y]]

NMul[d \in Int, x \in Number, y \in Number] ==
  Norm[x[1] * y[1] + d * x[2] * y[2], x[1] * y[2] + x[2] * y[1], x[3] * y[3]]

\* 1 / x: q / (a + b sqrt(d)) = q (a - b sqrt(d)) / (a^2 - d b^2)
NInv[d \in Int, x \in Number] ==
  Norm[x[3] * x[1], -(x[3] * x[2]), x[1] * x[1] - d * x[2] * x[2]]

NDiv[d \in Int, x \in Number, y \in Number] == NMul[d, x, NInv[d, y]]


(***************************************************************************)
(* Containers.  A DataVector of size n is a function on 0..n-1.  A Matrix  *)
(* is dense and column-major, as the calls that hand Matrix::data() to     *)
(* blaze and to dgemm_ with leading dimension num_points take it to be:    *)
(* element (i, j) is data[i + j * rows].                                   *)
(***************************************************************************)
Idx(n) == 0 .. (n - 1)

\* The Matrix whose element (i, j) is elem[i][j].
Matrix(rows, cols, elem) ==
  [rows |-> rows, cols |-> cols,
   data |-> [p \in Idx(rows * cols) |-> elem[p % rows][p \div rows]]]

At(M, i, j) == M.data[i + j * M.rows]

(***************************************************************************)
(* The basis and quadrature tags, and the supported numbers of points.     *)
(***************************************************************************)
Legendre == "Legendre"

Gauss == "Gauss"

GaussLobatto == "GaussLobatto"

Quadratures == {Gauss, GaussLobatto}

\* Spectral::maximum_number_of_points<Basis::Legendre>, reduced to what the
\* exact arithmetic of this model reaches.
maximum_number_of_points == 2

minimum_number_of_points(QuadratureType) ==
  IF QuadratureType = Gauss THEN 1 ELSE 2

\* CacheRange<min_num_points, max_num_points + 1>
CacheRange(QuadratureType) ==
  minimum_number_of_points(QuadratureType) .. maximum_number_of_points

\* The field the collocation points of (QuadratureType, num_points) lie in.
Radicand(QuadratureType, num_points) ==
  IF QuadratureType = Gauss
    THEN CASE num_points = 2 -> 3
           [] num_points = 3 -> 15
           [] OTHER -> 1
    ELSE CASE num_points = 4 -> 5
           [] OTHER -> 1

(***************************************************************************)
(* Primitive generators of the Legendre basis.                             *)
(***************************************************************************)
\* The Legendre-Gauss and Legendre-Gauss-Lobatto nodes and weights on [-1, 1].
compute_collocation_points_and_weights(QuadratureType, num_points) ==
  IF QuadratureType = Gauss
    THEN CASE num_points = 1 ->
                [first |-> <<Zero>>, second |-> <<Rat[2, 1]>>]
           [] num_points = 2 ->
                [first |-> << <<0, -1, 3>>, <<0, 1, 3>> >>,
                 second |-> <<One, One>>]
           [] num_points = 3 ->
                [first |-> << <<0, -1, 5>>, Zero, <<0, 1, 5>> >>,
                 second |-> <<Rat[5, 9], Rat[8, 9], Rat[5, 9]>>]
    ELSE CASE num_points = 2 ->
                [first |-> <<Rat[-1, 1], One>>, second |-> <<One, One>>]
           [] num_points = 3 ->
                [first |-> <<Rat[-1, 1], Zero, One>>,
                 second |-> <<Rat[1, 3], Rat[4, 3], Rat[1, 3]>>]
           [] num_points = 4 ->
                [first |-> <<Rat[-1, 1], <<0, -1, 5>>, <<0, 1, 5>>, One>>,
                 second |-> <<Rat[1, 6], Rat[5, 6], Rat[5, 6], Rat[1, 6]>>]

\* A sequence <<v1, ..., vn>> as a DataVector on 0..n-1.
DataVector(s) == [i \in Idx(Len(s)) |-> s[i + 1]]

\* Legendre polynomial P_k(x) by the three-term recurrence
\* j P_j = (2j - 1) x P_{j-1} - (j - 1) P_{j-2}.
RECURSIVE compute_basis_function_value(_, _, _)
compute_basis_function_value(d, k, x) ==
  CASE k = 0 -> One
    [] k = 1 -> x
    [] OTHER ->
         NDiv[d,
              NSub[NMul[d, NMul[d, Rat[2 * k - 1, 1], x],
                        compute_basis_function_value(d, k - 1, x)],
                   NMul[d, Rat[k - 1, 1],
                        compute_basis_function_value(d, k - 2, x)]],
              Rat[k, 1]]

\* The integral of P_k squared over [-1, 1].
compute_basis_function_normalization_square(k) == Rat[2, 2 * k + 1]

\* struct CollocationPointsAndWeightsGenerator
CollocationPointsAndWeightsGenerator(QuadratureType, num_points) ==
  LET pw == compute_collocation_points_and_weights(QuadratureType, num_points)
  IN  [first |-> DataVector(pw.first), second |-> DataVector(pw.second)]

(***************************************************************************)
(* Derived generators.  Each takes the quantities its call operator gets   *)
(* from the cache (x, weights, matrices) as arguments.                     *)
(***************************************************************************)
\* The two nested loops of BarycentricWeightsGenerator: the pairs (j, k),
\* k < j, in the order of the code, each multiplying two products.
RECURSIVE BarycentricProducts(_, _, _, _, _, _)
\* BarycentricProducts multiplying both products by x[j] - x[k].
BarycentricProductsSameDifference(d, num_points, x, bary_weights, j, k) ==
  IF j >= num_points THEN bary_weights
  ELSE IF k >= j
    THEN BarycentricProducts(d, num_points, x, bary_weights, j + 1, 0)
    ELSE LET bk == NMul[d, bary_weights[k], NSub[x[j], x[k]]]
             bj == NMul[d, bary_weights[j], NSub[x[j], x[k]]]
             next == [bary_weights EXCEPT ![k] = bk, ![j] = bj]
         IN  BarycentricProducts(d, num_points, x, next, j, k + 1)

BarycentricProducts(d, num_points, x, bary_weights, j, k) ==
  IF j >= num_points THEN bary_weights
  ELSE IF k >= j
    THEN BarycentricProducts(d, num_points, x, bary_weights, j + 1, 0)
    ELSE LET bk == NMul[d, bary_weights[k], NSub[x[k], x[j]]]
             bj == NMul[d, bary_weights[j], NSub[x[j], x[k]]]
             next == [bary_weights EXCEPT ![k] = bk, ![j] = bj]
         IN  BarycentricProducts(d, num_points, x, next, j, k + 1)

BarycentricWeightsGenerator(d, num_points, x) ==
  LET products ==
        BarycentricProducts(d, num_points, x,
                            [j \in Idx(num_points) |-> One], 1, 0)
  IN  [j \in Idx(num_points) |-> NDiv[d, One, products[j]]]

\* Row i of the differentiation matrix after the inner loop has run over
\* columns 0..j-1: the row so far, with the diagonal being accumulated.
RECURSIVE DifferentiationRow(_, _, _, _, _, _, _)
\* DifferentiationRow with the off-diagonal entries added to the diagonal.
DifferentiationRowAddingToDiagonal(d, num_points, collocation_pts, bary_weights, i, j, row) ==
  IF j >= num_points THEN row
  ELSE IF i # j
    THEN LET entry ==
               NDiv[d, bary_weights[j],
                    NMul[d, bary_weights[i],
                         NSub[collocation_pts[i], collocation_pts[j]]]]
             next == [row EXCEPT ![j] = entry, ![i] = NAdd[row[i], entry]]
         IN  DifferentiationRow(d, num_points, collocation_pts, bary_weights,
                                i, j + 1, next)
    ELSE DifferentiationRow(d, num_points, collocation_pts, bary_weights,
                            i, j + 1, row)

DifferentiationRow(d, num_points, collocation_pts, bary_weights, i, j, row) ==
  IF j >= num_points THEN row
  ELSE IF i # j
    THEN LET entry ==
               NDiv[d, bary_weights[j],
                    NMul[d, bary_weights[i],
                         NSub[collocation_pts[i], collocation_pts[j]]]]
             next == [row EXCEPT ![j] = entry, ![i] = NSub[row[i], entry]]
         IN  DifferentiationRow(d, num_points, collocation_pts, bary_weights,
                                i, j + 1, next)
    ELSE DifferentiationRow(d, num_points, collocation_pts, bary_weights,
                            i, j + 1, row)

\* DifferentiationMatrixGenerator storing the entry of (i, j) at (j, i).
DifferentiationMatrixGeneratorTransposed(d, num_points, collocation_pts, bary_weights) ==
  LET rows == [i \in Idx(num_points) |->
                 DifferentiationRow(d, num_points, collocation_pts,
                                    bary_weights, i, 0,
                                    [j \in Idx(num_points) |-> Zero])]
  IN  Matrix(num_points, num_points,
             [i \in Idx(num_points) |->
                [j \in Idx(num_points) |-> rows[j][i]]])

DifferentiationMatrixGenerator(d, num_points, collocation_pts, bary_weights) ==
  LET rows == [i \in Idx(num_points) |->
                 DifferentiationRow(d, num_points, collocation_pts,
                                    bary_weights, i, 0,
                                    [j \in Idx(num_points) |-> Zero])]
  IN  Matrix(num_points, num_points, rows)

SpectralToGridPointsMatrixGenerator(d, num_points, x) ==
  Matrix(num_points, num_points,
         [i \in Idx(num_points) |->
            [j \in Idx(num_points) |->
               compute_basis_function_value(d, j, x[i])]])


(***************************************************************************)
(* blaze::invert(work): the inverse of a square matrix, here by exact      *)
(* Gauss-Jordan elimination of the rows of [work | identity], kept as a    *)
(* sequence of rows.  A singular matrix has no inverse: every element of   *)
(* the result is non-finite.  (s \o <<>> is s, evaluated once.)            *)
(***************************************************************************)
\* The rows after column k has been eliminated with the pivot in row p.
Eliminate[d \in Int, aug \in Seq(Seq(Number)), k \in Nat, p \in Nat] ==
  LET n == Len(aug)
      swapped == [aug EXCEPT ![k] = aug[p], ![p] = aug[k]]
      scaled == [c \in 1 .. 2 * n |->
                   NDiv[d, swapped[k][c], swapped[k][k]]] \o <<>>
  IN  [r \in 1 .. n |->
         IF r = k THEN scaled
         ELSE [c \in 1 .. 2 * n |->
                 NSub[swapped[r][c],
                      NMul[d, swapped[r][k], scaled[c]]]] \o <<>>] \o <<>>

\* The rows after the columns k and after have been eliminated.
GaussJordan[d \in Int, aug \in Seq(Seq(Number)), k \in Nat] ==
  LET n == Len(aug)
      pivots == {r \in k .. n : aug[r][k] # Zero}
  IN  IF k > n THEN aug
      ELSE IF pivots = {}
        THEN [r \in 1 .. n |-> [c \in 1 .. 2 * n |-> NaN]]
        ELSE GaussJordan[
               d,
               Eliminate[d, aug, k,
                         CHOOSE r \in pivots : \A r2 \in pivots : r <= r2],
               k + 1]

\* The right half of the rows [identity | inverse], as a Matrix.
InverseOf[solved \in Seq(Seq(Number))] ==
  LET n == Len(solved)
  IN  Matrix(n, n,
             [r \in Idx(n) |-> [c \in Idx(n) |-> solved[r + 1][c + 1 + n]]])

invert(d, work) ==
  LET n == work.rows
  IN  InverseOf[GaussJordan[
        d,
        [r \in 1 .. n |->
           [c \in 1 .. 2 * n |->
              IF c <= n THEN At(work, r - 1, c - 1)
              ELSE IF c - n = r THEN One ELSE Zero] \o <<>>] \o <<>>,
        1]]

\* blaze::DynamicMatrix<double, blaze::columnMajor>(m, n, array): the
\* column-major matrix that copies its elements from a raw array.
DynamicMatrixFromArray(m, n, array) ==
  [rows |-> m, cols |-> n, data |-> [p \in Idx(m * n) |-> array[p]]]

\* The generic GridPointsToSpectralMatrixGenerator: numeric inversion of
\* the Vandermonde matrix.
GridPointsToSpectralMatrixGenerator(d, num_points, vandermonde_matrix) ==
  LET work == invert(d, DynamicMatrixFromArray(num_points, num_points,
                                               vandermonde_matrix.data))
  IN  Matrix(num_points, num_points,
             [i \in Idx(num_points) |->
                [j \in Idx(num_points) |-> At(work, i, j)]])

\* The Gauss specialisation reading V_{ij} where the code reads V_{ji}.
GridPointsToSpectralMatrixGeneratorGaussUntransposed(d, num_points, weights, vandermonde_matrix) ==
  Matrix(num_points, num_points,
         [i \in Idx(num_points) |->
            [j \in Idx(num_points) |->
               NDiv[d, NMul[d, At(vandermonde_matrix, i, j), weights[j]],
                    compute_basis_function_normalization_square(i)]]])

\* The Gauss specialisation dividing by the normalization of the column.
GridPointsToSpectralMatrixGeneratorGaussByColumn(d, num_points, weights, vandermonde_matrix) ==
  Matrix(num_points, num_points,
         [i \in Idx(num_points) |->
            [j \in Idx(num_points) |->
               NDiv[d, NMul[d, At(vandermonde_matrix, j, i), weights[j]],
                    compute_basis_function_normalization_square(j)]]])

\* The specialisation for Quadrature::Gauss: the analytic expression
\* V^{-1}_{ij} = V_{ji} w_j / gamma_i.
GridPointsToSpectralMatrixGeneratorGauss(d, num_points, weights, vandermonde_matrix) ==
  Matrix(num_points, num_points,
         [i \in Idx(num_points) |->
            [j \in Idx(num_points) |->
               NDiv[d, NMul[d, At(vandermonde_matrix, j, i), weights[j]],
                    compute_basis_function_normalization_square(i)]]])

\* The sum over l < k of a[i + l * lda] * b[l + j * ldb], accumulated in
\* the order of l.
RECURSIVE DotProduct(_, _, _, _, _, _, _, _)
DotProduct(d, k, a, lda, b, ldb, i, j) ==
  IF k = 0 THEN Zero
  ELSE NAdd[DotProduct(d, k - 1, a, lda, b, ldb, i, j),
            NMul[d, a[i + (k - 1) * lda], b[(k - 1) + j * ldb]]]

\* dgemm_('N', 'N', m, n, k, alpha, a, lda, b, ldb, beta, c, ldc) with
\* beta = 0: the array c of the m x n product, c[i + j * ldc] =
\* alpha * sum over l < k of a[i + l * lda] * b[l + j * ldb].
dgemm_(d, m, n, k, alpha, a, lda, b, ldb, ldc) ==
  [p \in Idx(ldc * n) |->
     NMul[d, alpha, DotProduct(d, k, a, lda, b, ldb, p % ldc, p \div ldc)]]

Min(a, b) == IF a < b THEN a ELSE b

\* LinearFilterMatrixGenerator handing dgemm_ the leading dimension of the
\* first K rows of grid_to_spectral packed, K, where the matrix has
\* num_points.
LinearFilterMatrixGeneratorPackedRows(d, num_points, spectral_to_grid, grid_to_spectral) ==
  [rows |-> num_points, cols |-> num_points,
   data |-> dgemm_(d, num_points, num_points, Min(2, num_points), One,
                   spectral_to_grid.data, num_points,
                   grid_to_spectral.data, Min(2, num_points), num_points)]

\* LinearFilterMatrixGenerator multiplying all the modes, not the lowest
\* two.
LinearFilterMatrixGeneratorAllModes(d, num_points, spectral_to_grid, grid_to_spectral) ==
  [rows |-> num_points, cols |-> num_points,
   data |-> dgemm_(d, num_points, num_points, num_points, One,
                   spectral_to_grid.data, num_points,
                   grid_to_spectral.data, num_points, num_points)]

LinearFilterMatrixGenerator(d, num_points, spectral_to_grid, grid_to_spectral) ==
  [rows |-> num_points, cols |-> num_points,
   data |-> dgemm_(d, num_points, num_points, Min(2, num_points), One,
                   spectral_to_grid.data, num_points,
                   grid_to_spectral.data, num_points, num_points)]

\* Matrix product and identity, for stating the claims.
MatMul(d, A, B) ==
  Matrix(A.rows, B.cols,
         [i \in Idx(A.rows) |->
            [j \in Idx(B.cols) |->
               DotProduct(d, A.cols, A.data, A.rows, B.data, B.rows, i, j)]])

Identity(n) ==
  Matrix(n, n, [i \in Idx(n) |-> [j \in Idx(n) |-> IF i = j THEN One ELSE Zero]])


(***************************************************************************)
(* Order and round-off.                                                    *)
(***************************************************************************)
\* The sign of (a + b sqrt(d)) / q, q > 0.
Sign[d \in Int, x \in Number] ==
  LET a == x[1]
      b == x[2]
  IN  IF a >= 0 /\ b >= 0 THEN (IF a = 0 /\ b = 0 THEN 0 ELSE 1)
      ELSE IF a <= 0 /\ b <= 0 THEN -1
      ELSE IF a > 0 THEN (IF a * a > d * b * b THEN 1 ELSE -1)
      ELSE (IF d * b * b > a * a THEN 1 ELSE -1)

NAbs[d \in Int, x \in Number] == IF Sign[d, x] < 0 THEN NNeg[x] ELSE x

\* The tolerance of equal_within_roundoff, at the resolution of the model.
roundoff_eps == Rat[1, 1000]

equal_within_roundoff(d, a, b) ==
  IsFinite(a) /\ IsFinite(b)
  /\ Sign[d, NSub[NAbs[d, NSub[a, b]], roundoff_eps]] < 0

(***************************************************************************)
(* interpolation_matrix: the loop over the target points.                  *)
(***************************************************************************)
\* MatchRow comparing the target and the collocation point with ==.
MatchRowExactEquality(d, num_points, target, collocation_pts) ==
  [j \in Idx(num_points) |->
     IF target = collocation_pts[j] THEN One ELSE Zero]

\* The first inner loop over j < num_points: the row set to zero, with a 1
\* wherever the target matches a collocation point.
MatchRow(d, num_points, target, collocation_pts) ==
  [j \in Idx(num_points) |->
     IF equal_within_roundoff(d, target, collocation_pts[j])
       THEN One ELSE Zero]

\* row_has_match that the first inner loop never sets.
row_has_matchNeverSet(d, num_points, target, collocation_pts) == FALSE

row_has_match(d, num_points, target, collocation_pts) ==
  \E j \in Idx(num_points) :
     equal_within_roundoff(d, target, collocation_pts[j])

\* sum += interp_matrix(k, j), for j = 0 .. upto - 1 in this order.
RECURSIVE RowSum(_, _)
RowSum(row, upto) ==
  IF upto = 0 THEN Zero ELSE NAdd[RowSum(row, upto - 1), row[upto - 1]]

\* InterpolationRow without the loop that divides the row by its sum.
InterpolationRowUnnormalized(d, num_points, target, collocation_pts, bary_weights) ==
  IF row_has_match(d, num_points, target, collocation_pts)
    THEN MatchRow(d, num_points, target, collocation_pts)
    ELSE [j \in Idx(num_points) |->
            NDiv[d, bary_weights[j], NSub[target, collocation_pts[j]]]]

InterpolationRow(d, num_points, target, collocation_pts, bary_weights) ==
  IF row_has_match(d, num_points, target, collocation_pts)
    THEN MatchRow(d, num_points, target, collocation_pts)
    ELSE LET unnormalized ==
               [j \in Idx(num_points) |->
                  NDiv[d, bary_weights[j], NSub[target, collocation_pts[j]]]]
             sum == RowSum(unnormalized, num_points)
         IN  [j \in Idx(num_points) |-> NDiv[d, unnormalized[j], sum]]

interpolation_matrix(d, num_points, target_points, collocation_pts, bary_weights) ==
  LET num_target_points == Len(target_points)
  IN  Matrix(num_target_points, num_points,
             [k \in Idx(num_target_points) |->
                InterpolationRow(d, num_points, target_points[k + 1],
                                 collocation_pts, bary_weights)])


(***************************************************************************)
(* The cached quantities: the generator each accessor instantiates         *)
(* precomputed_spectral_quantity with, and the accessors each generator's  *)
(* call operator calls.                                                    *)
(***************************************************************************)
Generators ==
  {"CollocationPointsAndWeightsGenerator", "BarycentricWeightsGenerator",
   "DifferentiationMatrixGenerator", "SpectralToGridPointsMatrixGenerator",
   "GridPointsToSpectralMatrixGenerator", "LinearFilterMatrixGenerator"}

\* The accessors instantiated for the public interface.
CachedFunctions ==
  {"collocation_points", "quadrature_weights", "differentiation_matrix",
   "spectral_to_grid_points_matrix", "grid_points_to_spectral_matrix",
   "linear_filter_matrix"}

PublicFunctions == CachedFunctions \cup {"interpolation_matrix"}

GeneratorOf(function_name) ==
  CASE function_name \in {"collocation_points", "quadrature_weights"} ->
         "CollocationPointsAndWeightsGenerator"
    [] function_name = "barycentric_weights" -> "BarycentricWeightsGenerator"
    [] function_name = "differentiation_matrix" ->
         "DifferentiationMatrixGenerator"
    [] function_name = "spectral_to_grid_points_matrix" ->
         "SpectralToGridPointsMatrixGenerator"
    [] function_name = "grid_points_to_spectral_matrix" ->
         "GridPointsToSpectralMatrixGenerator"
    [] function_name = "linear_filter_matrix" -> "LinearFilterMatrixGenerator"

\* What a call returns, or a cache entry holds: a constructed value, or
\* the indeterminate content of storage that holds none.
Value(x) == [defined |-> TRUE, value |-> x]

Indeterminate == [defined |-> FALSE, value |-> "indeterminate"]

\* Select with the two halves of the pair exchanged.
SelectSwapped(function_name, entry) ==
  IF ~entry.defined THEN Indeterminate
  ELSE CASE function_name = "collocation_points" -> Value(entry.value.second)
         [] function_name = "quadrature_weights" -> Value(entry.value.first)
         [] OTHER -> entry

\* What the accessor returns of the cache entry: .first, .second or all.
Select(function_name, entry) ==
  IF ~entry.defined THEN Indeterminate
  ELSE CASE function_name = "collocation_points" -> Value(entry.value.first)
         [] function_name = "quadrature_weights" -> Value(entry.value.second)
         [] OTHER -> entry

\* The accessors a generator's call operator calls, in each order the
\* language allows: statements run in sequence, the arguments of one call
\* (dgemm_ in LinearFilterMatrixGenerator) are evaluated in either order.
PrerequisiteOrders(QuadratureType, generator) ==
  CASE generator = "CollocationPointsAndWeightsGenerator" -> {<<>>}
    [] generator = "BarycentricWeightsGenerator" -> {<<"collocation_points">>}
    [] generator = "DifferentiationMatrixGenerator" ->
         {<<"collocation_points", "barycentric_weights">>}
    [] generator = "SpectralToGridPointsMatrixGenerator" ->
         {<<"collocation_points">>}
    [] generator = "GridPointsToSpectralMatrixGenerator" ->
         IF QuadratureType = Gauss
           THEN {<<"quadrature_weights", "spectral_to_grid_points_matrix">>}
           ELSE {<<"spectral_to_grid_points_matrix">>}
    [] generator = "LinearFilterMatrixGenerator" ->
         {<<"spectral_to_grid_points_matrix",
            "grid_points_to_spectral_matrix">>,
          <<"grid_points_to_spectral_matrix",
            "spectral_to_grid_points_matrix">>}

\* The value the call of function_name returned, among the values args
\* returned by the calls made in the order `order`.
Arg(order, args, function_name) ==
  args[CHOOSE p \in 1 .. Len(order) : order[p] = function_name]

\* generator(num_points): the call operator of each generator, applied to
\* what its calls returned.  A computation that reads an indeterminate
\* value is itself indeterminate.
Generate(QuadratureType, generator, num_points, order, args) ==
  LET d == Radicand(QuadratureType, num_points)
      A(function_name) == Arg(order, args, function_name).value
  IN  IF \E p \in 1 .. Len(args) : ~args[p].defined THEN Indeterminate
      ELSE Value(
      CASE generator = "CollocationPointsAndWeightsGenerator" ->
             CollocationPointsAndWeightsGenerator(QuadratureType, num_points)
        [] generator = "BarycentricWeightsGenerator" ->
             BarycentricWeightsGenerator(d, num_points, A("collocation_points"))
        [] generator = "DifferentiationMatrixGenerator" ->
             DifferentiationMatrixGenerator(d, num_points,
                                            A("collocation_points"),
                                            A("barycentric_weights"))
        [] generator = "SpectralToGridPointsMatrixGenerator" ->
             SpectralToGridPointsMatrixGenerator(d, num_points,
                                                 A("collocation_points"))
        [] generator = "GridPointsToSpectralMatrixGenerator" ->
             IF QuadratureType = Gauss
               THEN GridPointsToSpectralMatrixGeneratorGauss(
                      d, num_points, A("quadrature_weights"),
                      A("spectral_to_grid_points_matrix"))
               ELSE GridPointsToSpectralMatrixGenerator(
                      d, num_points, A("spectral_to_grid_points_matrix"))
        [] generator = "LinearFilterMatrixGenerator" ->
             LinearFilterMatrixGenerator(d, num_points,
                                         A("spectral_to_grid_points_matrix"),
                                         A("grid_points_to_spectral_matrix")))

(***************************************************************************)
(* State.                                                                  *)
(***************************************************************************)
\* The threads of the process that call into the kernel.
NumThreads == 2

Threads == 1 .. NumThreads

\* The function-local statics `precomputed_data`, one per instantiation
\* precomputed_spectral_quantity<Legendre, QuadratureType, Generator>.
Statics == Quadratures \X Generators

VARIABLES
  guard,        \* per static: "uninit", "running" (its initializer runs), "done"
  data,         \* per static: the entries of the cache constructed so far
  thr,          \* per thread: its status, call stack, request and result,
                \* and the generator calls its current request has made
  invocations,  \* per static and num_points: calls of the generator so far
  requested,    \* the (quadrature, generator, num_points) asked for so far
  instrumented, \* whether this run records `requested`
  \* the generators and the loop of interpolation_matrix, run on their own
  loop_nodes,          \* the nodes x, their weights and their field
  loop_values,         \* what each generator applied to them has returned
  loop_target_points,  \* the targets handed to the loop of interpolation_matrix
  loop_interp_matrix,  \* what that loop returned
  \* the DataBox of the interpolator, and its queue of simple actions
  volume_vars_info,
  temporal_ids_when_data_has_been_interpolated,
  interpolator_queue,
  \* the DataBox of an interpolation target, and its queue
  temporal_ids,
  indices_of_filled_interp_points,
  target_queue,
  \* the WedgeSectionTorus option holder that the option parser constructs
  wedge_section_torus

\* The state of the spectral kernel, of the generators run on their own,
\* of the interpolator and of the interpolation target.
kernel == <<guard, data, thr, invocations, requested, instrumented>>

loops ==
  <<loop_nodes, loop_values, loop_target_points, loop_interp_matrix>>

interpolator ==
  <<volume_vars_info, temporal_ids_when_data_has_been_interpolated,
    interpolator_queue>>

interpolation_target ==
  <<temporal_ids, indices_of_filled_interp_points, target_queue>>

\* What a step of the kernel leaves alone.
elsewhere == <<loops, interpolator, interpolation_target, wedge_section_torus>>

vars ==
  <<kernel, loops, interpolator, interpolation_target, wedge_section_torus>>

NoValue == [defined |-> FALSE, value |-> "none"]

NoRequest ==
  [api |-> "none", function_name |-> "none", basis |-> "none",
   quadrature |-> "none", num_points |-> 0, target_points |-> <<>>]

Frame(kind, function_name, basis, quadrature, num_points, order, targets) ==
  [kind |-> kind, function_name |-> function_name, basis |-> basis,
   quadrature |-> quadrature, num_points |-> num_points, order |-> order,
   args |-> <<>>, target_points |-> targets]

\* The program as it starts: no static is initialized, no thread has called.
Start ==
  /\ guard = [s \in Statics |-> "uninit"]
  /\ data = [s \in Statics |-> <<>>]
  /\ thr = [t \in Threads |->
              [status |-> "idle", stack |-> <<>>, request |-> NoRequest,
               result |-> NoValue, computed |-> 0]]
  /\ invocations = [s \in Statics |-> [n \in CacheRange(s[1]) |-> 0]]
  /\ requested = {}

\* No loop has been evaluated on its own.
NoNodes ==
  [quadrature |-> "none", num_points |-> 0, d |-> 1, x |-> <<>>,
   weights |-> <<>>]

LoopsAtRest ==
  /\ loop_nodes = NoNodes
  /\ loop_values = <<>>
  /\ loop_target_points = <<>>
  /\ loop_interp_matrix = NoValue

\* MockMetavariables::interpolation_target_tags of the interpolator.
InterpolationTargetTags ==
  {"InterpolationTagA", "InterpolationTagB", "InterpolationTagC"}

\* An interpolator that holds no volume data and has interpolated nothing.
InterpolatorAtRest ==
  /\ volume_vars_info = {}
  /\ temporal_ids_when_data_has_been_interpolated =
       [tag \in InterpolationTargetTags |-> {}]
  /\ interpolator_queue = <<>>

\* An interpolation target as InitializeInterpolationTarget leaves it.
InterpolationTargetAtRest ==
  /\ temporal_ids = <<>>
  /\ indices_of_filled_interp_points = {}
  /\ target_queue = <<>>

\* No option holder has been constructed, and none has failed to be.
NoOptionHolder ==
  [options |-> <<>>, constructed |-> FALSE, parse_error |-> "none",
   holder |-> <<>>]

OptionHolderAtRest == wedge_section_torus = NoOptionHolder

Elsewhere ==
  /\ LoopsAtRest /\ InterpolatorAtRest /\ InterpolationTargetAtRest
  /\ OptionHolderAtRest

Init == Start /\ instrumented = FALSE /\ Elsewhere


(***************************************************************************)
(* Helpers on the threads' call stacks.                                    *)
(***************************************************************************)
Top(t) == thr[t].stack[Len(thr[t].stack)]

\* ASSERT and ERROR end the process: after one, no thread takes a step.
Errors == {"RangeError", "UnsupportedCombination"}

Aborted == \E t \in Threads : thr[t].status \in Errors

Runs(t, kind) ==
  /\ ~Aborted
  /\ thr[t].status = "running"
  /\ Top(t).kind = kind

Push(t, frame) == [thr EXCEPT ![t].stack = Append(@, frame)]

ReplaceTop(t, frame) ==
  [thr EXCEPT ![t].stack = [@ EXCEPT ![Len(@)] = frame]]

\* The top frame returns `value`: to its caller's frame, which collects
\* it, or, from the outermost frame, to the code that made the request.
Return(t, value) ==
  LET depth == Len(thr[t].stack)
  IN  IF depth = 1
        THEN [thr EXCEPT ![t].stack = <<>>, ![t].status = "returned",
                         ![t].result = value]
        ELSE [thr EXCEPT ![t].stack =
                [p \in 1 .. (depth - 1) |->
                   IF p = depth - 1
                     THEN [@[p] EXCEPT !.args = Append(@, value)]
                     ELSE @[p]]]

Fail(t, error) == [thr EXCEPT ![t].status = error]

\* InRange with the second ASSERT, on the maximum, left out.
InRangeNoMaximum(QuadratureType, num_points) ==
  num_points >= minimum_number_of_points(QuadratureType)

InRange(QuadratureType, num_points) ==
  /\ num_points >= minimum_number_of_points(QuadratureType)
  /\ num_points <= maximum_number_of_points

\* StaticOf with one static per generator, shared by the quadratures.
StaticOfSharedByQuadratures(QuadratureType, generator) == <<Gauss, generator>>

\* StaticOf with one static, and so one initialization guard, for all the
\* instantiations.
StaticOfGlobal(QuadratureType, generator) ==
  <<Gauss, "CollocationPointsAndWeightsGenerator">>

\* The static that precomputed_spectral_quantity<BasisType, QuadratureType,
\* SpectralQuantityGenerator> declares: one per instantiation.
StaticOf(QuadratureType, generator) == <<QuadratureType, generator>>

\* NeedsInitialization of a local that is not static: initialized on every
\* call that finds no initializer running.
NeedsInitializationEveryCall(static) == guard[static] # "running"

\* Whether control passing through the declaration of the static runs its
\* initializer: only while the static is not initialized and no other
\* thread is initializing it.
NeedsInitialization(static) == guard[static] = "uninit"

\* IsInitialized with the guard set before the initializer has finished.
IsInitializedOnceStarted(static) == guard[static] # "uninit"

\* Whether the static is initialized, so that control passes its
\* declaration and reads it.
IsInitialized(static) == guard[static] = "done"

CallFrame(function_name, QuadratureType, num_points) ==
  Frame("call", function_name, Legendre, QuadratureType, num_points, <<>>, <<>>)

InterpolationFrame(QuadratureType, num_points, target_points) ==
  Frame("interp", "interpolation_matrix", Legendre, QuadratureType,
        num_points, <<"collocation_points", "barycentric_weights">>,
        target_points)

FunctionFrame(function_name, QuadratureType, num_points, target_points) ==
  IF function_name = "interpolation_matrix"
    THEN InterpolationFrame(QuadratureType, num_points, target_points)
    ELSE CallFrame(function_name, QuadratureType, num_points)

\* `requested` after a call of function_name<Legendre, QuadratureType> with
\* num_points, which asks for the cache key of its generator.
Asked(function_name, QuadratureType, num_points) ==
  IF instrumented /\ function_name # "interpolation_matrix"
    THEN requested \cup
           {<<QuadratureType, GeneratorOf(function_name), num_points>>}
    ELSE requested

(***************************************************************************)
(* The requests a caller makes.                                            *)
(***************************************************************************)
RequestSizes == 0 .. (maximum_number_of_points + 1)

\* Target points handed to interpolation_matrix: the collocation points
\* themselves, and points that repeat, are unordered and lie on and off
\* the nodes.
TargetPoints(QuadratureType, num_points) ==
  {<<Rat[1, 2], Rat[-1, 1], Rat[1, 2]>>}
  \cup (IF InRange(QuadratureType, num_points)
          THEN {compute_collocation_points_and_weights(
                  QuadratureType, num_points).first}
          ELSE {})

TargetsFor(function_name, QuadratureType, num_points) ==
  IF function_name = "interpolation_matrix"
    THEN TargetPoints(QuadratureType, num_points) ELSE {<<>>}

CanRequest(t) == ~Aborted /\ thr[t].status = "idle"

\* A call of a public function template,
\* function_name<Basis::Legendre, QuadratureType>(num_points[, targets]).
Request(t) ==
  /\ CanRequest(t)
  /\ \E function_name \in PublicFunctions, QuadratureType \in Quadratures,
        num_points \in RequestSizes :
       \E target_points \in
            TargetsFor(function_name, QuadratureType, num_points) :
         /\ thr' = [thr EXCEPT ![t] =
              [status |-> "running",
               stack |-> <<FunctionFrame(function_name, QuadratureType,
                                         num_points, target_points)>>,
               request |-> [api |-> "direct", function_name |-> function_name,
                            basis |-> Legendre, quadrature |-> QuadratureType,
                            num_points |-> num_points,
                            target_points |-> target_points],
               result |-> NoValue, computed |-> 0]]
         /\ requested' = Asked(function_name, QuadratureType, num_points)
  /\ UNCHANGED <<guard, data, invocations, instrumented, elsewhere>>

\* The runtime tags a Mesh<1> can hold: the supported ones and, for each
\* enum, a value the switch has no case for.
MeshBases == {Legendre, "UnknownBasis"}

MeshQuadratures == Quadratures \cup {"UnknownQuadrature"}

\* A call of a mesh-level overload, function_name(mesh[, targets]).
RequestForMesh(t) ==
  /\ CanRequest(t)
  /\ \E function_name \in PublicFunctions, basis \in MeshBases,
        quadrature \in MeshQuadratures, extents \in RequestSizes :
       \E target_points \in
            TargetsFor(function_name,
                       IF quadrature \in Quadratures THEN quadrature
                       ELSE Gauss, extents) :
         thr' = [thr EXCEPT ![t] =
           [status |-> "running",
            stack |-> <<Frame("mesh", function_name, basis, quadrature,
                              extents, <<>>, target_points)>>,
            request |-> [api |-> "mesh", function_name |-> function_name,
                         basis |-> basis, quadrature |-> quadrature,
                         num_points |-> extents,
                         target_points |-> target_points],
            result |-> NoValue, computed |-> 0]]
  /\ UNCHANGED <<guard, data, invocations, requested, instrumented, elsewhere>>

\* MeshSwitch with the cases of the two quadratures exchanged.
MeshSwitchQuadraturesSwapped(basis, quadrature) ==
  CASE basis = Legendre ->
         (CASE quadrature = Gauss ->
                 [error |-> FALSE, basis |-> Legendre,
                  quadrature |-> GaussLobatto]
            [] quadrature = GaussLobatto ->
                 [error |-> FALSE, basis |-> Legendre, quadrature |-> Gauss]
            [] OTHER ->
                 [error |-> TRUE, basis |-> basis, quadrature |-> quadrature])
    [] OTHER -> [error |-> TRUE, basis |-> basis, quadrature |-> quadrature]

\* MeshSwitch whose default cases fall through to Legendre and Gauss.
MeshSwitchDefaultGauss(basis, quadrature) ==
  [error |-> FALSE, basis |-> Legendre,
   quadrature |-> IF quadrature = GaussLobatto THEN GaussLobatto ELSE Gauss]

\* The switch of get_spectral_quantity_for_mesh on mesh.basis(0) and
\* mesh.quadrature(0): the template arguments it hands to f, or the ERROR
\* of the default case it ends in.
MeshSwitch(basis, quadrature) ==
  CASE basis = Legendre ->
         (CASE quadrature = Gauss ->
                 [error |-> FALSE, basis |-> Legendre, quadrature |-> Gauss]
            [] quadrature = GaussLobatto ->
                 [error |-> FALSE, basis |-> Legendre,
                  quadrature |-> GaussLobatto]
            [] OTHER ->
                 [error |-> TRUE, basis |-> basis, quadrature |-> quadrature])
    [] OTHER -> [error |-> TRUE, basis |-> basis, quadrature |-> quadrature]

\* get_spectral_quantity_for_mesh: f is called with the selected tags and
\* num_points = mesh.extents(0), and its result is returned as it is, so
\* the frame of f takes the place of the dispatching frame.
get_spectral_quantity_for_mesh(t) ==
  /\ Runs(t, "mesh")
  /\ LET mesh == Top(t)
         num_points == mesh.num_points
         selected == MeshSwitch(mesh.basis, mesh.quadrature)
     IN  IF selected.error
           THEN /\ thr' = Fail(t, "UnsupportedCombination")
                /\ UNCHANGED requested
           ELSE /\ thr' = ReplaceTop(t,
                     FunctionFrame(mesh.function_name, selected.quadrature,
                                   num_points, mesh.target_points))
                /\ requested' =
                     Asked(mesh.function_name, selected.quadrature, num_points)
  /\ UNCHANGED <<guard, data, invocations, instrumented, elsewhere>>

(***************************************************************************)
(* precomputed_spectral_quantity and interpolation_matrix.                 *)
(***************************************************************************)
\* The two ASSERTs on num_points that open precomputed_spectral_quantity
\* and interpolation_matrix: out of range, the request ends in an error.
AssertNumPoints(t) ==
  /\ \/ Runs(t, "call")
     \/ Runs(t, "interp") /\ Top(t).args = <<>>
  /\ ~InRange(Top(t).quadrature, Top(t).num_points)
  /\ thr' = Fail(t, "RangeError")
  /\ UNCHANGED <<guard, data, invocations, requested, instrumented, elsewhere>>

\* The initializer of the static of <Legendre, QuadratureType, generator>,
\* about to compute the quantity for num_points; the generator's call
\* operator will make its calls in the order `order`.
InitFrame(QuadratureType, generator, num_points, order) ==
  Frame("init", generator, Legendre, QuadratureType, num_points, order, <<>>)

\* Control reaches `static const auto precomputed_data = make_static_cache
\* <CacheRange<min, max + 1>>(Generator{})` for the first time: this thread
\* runs the initializer, which computes the quantity for every num_points
\* of the range, starting with the smallest.
BeginStaticInitialization(t) ==
  /\ Runs(t, "call")
  /\ InRange(Top(t).quadrature, Top(t).num_points)
  /\ LET q == Top(t).quadrature
         generator == GeneratorOf(Top(t).function_name)
         static == StaticOf(q, generator)
     IN  /\ NeedsInitialization(static)
         /\ guard' = [guard EXCEPT ![static] = "running"]
         /\ \E order \in PrerequisiteOrders(q, generator) :
              thr' = Push(t, InitFrame(q, generator,
                                       minimum_number_of_points(q), order))
  /\ UNCHANGED <<data, invocations, requested, instrumented, elsewhere>>

\* `return precomputed_data(num_points)` once the static is initialized.  A
\* thread that finds another thread's initializer running waits: no step.
ReturnPrecomputed(t) ==
  /\ Runs(t, "call")
  /\ InRange(Top(t).quadrature, Top(t).num_points)
  /\ LET static ==
           StaticOf(Top(t).quadrature, GeneratorOf(Top(t).function_name))
         n == Top(t).num_points
     IN  /\ IsInitialized(static)
         /\ thr' = Return(t,
              Select(Top(t).function_name,
                     IF n \in DOMAIN data[static] THEN data[static][n]
                     ELSE Indeterminate))
  /\ UNCHANGED <<guard, data, invocations, requested, instrumented, elsewhere>>

\* A generator's call operator, or interpolation_matrix, calls the next
\* accessor it needs, with its own num_points.
CallPrerequisite(t) ==
  /\ \/ Runs(t, "init") /\ Top(t).num_points <= maximum_number_of_points
     \/ Runs(t, "interp") /\ InRange(Top(t).quadrature, Top(t).num_points)
  /\ Len(Top(t).args) < Len(Top(t).order)
  /\ LET function_name == Top(t).order[Len(Top(t).args) + 1]
     IN  /\ thr' = Push(t, CallFrame(function_name, Top(t).quadrature,
                                     Top(t).num_points))
         /\ requested' =
              Asked(function_name, Top(t).quadrature, Top(t).num_points)
  /\ UNCHANGED <<guard, data, invocations, instrumented, elsewhere>>

\* NextOfRange of an initializer that computes the quantity only for the
\* first num_points of the range.
NextOfRangeFirstOnly(num_points) == maximum_number_of_points + 1

\* The num_points the initializer goes on to after num_points, in
\* CacheRange<min_num_points, max_num_points + 1>.
NextOfRange(num_points) == num_points + 1

\* The generator's call operator returns the quantity for num_points; the
\* initializer stores it and goes on to the next num_points of the range.
RunGenerator(t) ==
  /\ Runs(t, "init")
  /\ Top(t).num_points <= maximum_number_of_points
  /\ Len(Top(t).args) = Len(Top(t).order)
  /\ LET f == Top(t)
         static == StaticOf(f.quadrature, f.function_name)
         n == f.num_points
         value == Generate(f.quadrature, f.function_name, n, f.order, f.args)
     IN  /\ data' = [data EXCEPT ![static] = (n :> value) @@ @]
         /\ invocations' = [invocations EXCEPT ![static][n] = @ + 1]
         /\ \E order \in PrerequisiteOrders(f.quadrature, f.function_name) :
              thr' = [ReplaceTop(t, InitFrame(f.quadrature, f.function_name,
                                              NextOfRange(n), order))
                        EXCEPT ![t].computed = @ + 1]
  /\ UNCHANGED <<guard, requested, instrumented, elsewhere>>

\* The initializer has filled the whole range: the static is initialized,
\* and the threads waiting for it go on.
FinishStaticInitialization(t) ==
  /\ Runs(t, "init")
  /\ Top(t).num_points > maximum_number_of_points
  /\ guard' = [guard EXCEPT
                 ![StaticOf(Top(t).quadrature, Top(t).function_name)] = "done"]
  /\ thr' = [thr EXCEPT ![t].stack = SubSeq(@, 1, Len(@) - 1)]
  /\ UNCHANGED <<data, invocations, requested, instrumented, elsewhere>>

\* interpolation_matrix, once it holds the collocation points and the
\* barycentric weights: the loop over the target points, and the return.
ComputeInterpolation(t) ==
  /\ Runs(t, "interp")
  /\ Len(Top(t).args) = Len(Top(t).order)
  /\ LET f == Top(t)
     IN  thr' = Return(t,
           IF \E p \in 1 .. Len(f.args) : ~f.args[p].defined
             THEN Indeterminate
             ELSE Value(interpolation_matrix(
                    Radicand(f.quadrature, f.num_points), f.num_points,
                    f.target_points,
                    Arg(f.order, f.args, "collocation_points").value,
                    Arg(f.order, f.args, "barycentric_weights").value)))
  /\ UNCHANGED <<guard, data, invocations, requested, instrumented, elsewhere>>

precomputed_spectral_quantity(t) ==
  \/ AssertNumPoints(t)
  \/ BeginStaticInitialization(t)
  \/ ReturnPrecomputed(t)

Step(t) ==
  \/ get_spectral_quantity_for_mesh(t)
  \/ precomputed_spectral_quantity(t)
  \/ CallPrerequisite(t)
  \/ RunGenerator(t)
  \/ FinishStaticInitialization(t)
  \/ ComputeInterpolation(t)

(***************************************************************************)
(* Spec: one caller making any sequence of requests, direct and through a  *)
(* mesh, valid and not.                                                    *)
(***************************************************************************)
Caller == 1

\* The caller is done with what the call returned, and free to call again.
Continue(t) ==
  /\ ~Aborted
  /\ thr[t].status = "returned"
  /\ thr' = [thr EXCEPT ![t] =
              [status |-> "idle", stack |-> <<>>, request |-> NoRequest,
               result |-> NoValue, computed |-> 0]]
  /\ UNCHANGED <<guard, data, invocations, requested, instrumented, elsewhere>>

Next ==
  \/ Request(Caller)
  \/ RequestForMesh(Caller)
  \/ Step(Caller)
  \/ Continue(Caller)

Spec == Init /\ [][Next]_vars


(***************************************************************************)
(* ConcSpec: the threads of the process each make one valid call of a      *)
(* cached accessor, concurrently, starting with no static initialized;     *)
(* the run records the keys asked for.  FairConcSpec adds that a thread    *)
(* that can take a step is eventually scheduled.                           *)
(***************************************************************************)
ConcInit == Start /\ instrumented = TRUE /\ Elsewhere

ConcRequest(t) ==
  /\ ~Aborted
  /\ thr[t].status = "idle"
  /\ \E function_name \in CachedFunctions, QuadratureType \in Quadratures :
       \E num_points \in CacheRange(QuadratureType) :
         /\ thr' = [thr EXCEPT ![t] =
              [status |-> "running",
               stack |-> <<CallFrame(function_name, QuadratureType,
                                     num_points)>>,
               request |-> [api |-> "direct", function_name |-> function_name,
                            basis |-> Legendre, quadrature |-> QuadratureType,
                            num_points |-> num_points,
                            target_points |-> <<>>],
               result |-> NoValue, computed |-> 0]]
         /\ requested' = Asked(function_name, QuadratureType, num_points)
  /\ UNCHANGED <<guard, data, invocations, instrumented, elsewhere>>

ConcStep(t) ==
  \/ BeginStaticInitialization(t)
  \/ ReturnPrecomputed(t)
  \/ CallPrerequisite(t)
  \/ RunGenerator(t)
  \/ FinishStaticInitialization(t)

ConcNext == \E t \in Threads : ConcRequest(t) \/ ConcStep(t)

ConcSpec == ConcInit /\ [][ConcNext]_vars

FairConcSpec == ConcSpec /\ \A t \in Threads : WF_vars(ConcStep(t))


(***************************************************************************)
(* GeneratorSpec: the call operators of the derived generators and the     *)
(* loop of interpolation_matrix, run on their own for one set of nodes:    *)
(* the collocation points and weights of a (quadrature, num_points), or    *)
(* any pairwise distinct nodes.  Each generator is handed what the         *)
(* generators before it returned for the same nodes, as the cache would.   *)
(***************************************************************************)
\* The largest number of nodes drawn.
MaxNodes == 3

\* The num_points for which the model has the nodes of a quadrature in
\* its exact arithmetic.
ModelledPoints(QuadratureType) ==
  IF QuadratureType = Gauss THEN 1 .. 3 ELSE 2 .. 4

CollocationInputs ==
  {[quadrature |-> qn[1], num_points |-> qn[2],
    d |-> Radicand(qn[1], qn[2]),
    x |-> CollocationPointsAndWeightsGenerator(qn[1], qn[2]).first,
    weights |-> CollocationPointsAndWeightsGenerator(qn[1], qn[2]).second] :
     qn \in {p \in Quadratures \X (1 .. MaxNodes) :
               p[2] \in ModelledPoints(p[1])}}

NodeValues == {Rat[-1, 1], Rat[-1, 2], Zero, Rat[1, 3], One}

\* The sequences of n pairwise distinct nodes, in any order.
DistinctNodes(n) ==
  {s \in [1 .. n -> NodeValues] : \A i, j \in 1 .. n : i # j => s[i] # s[j]}

ArbitraryInputs ==
  {[quadrature |-> "none", num_points |-> Len(s), d |-> 1,
    x |-> DataVector(s), weights |-> <<>>] :
     s \in UNION {DistinctNodes(n) : n \in 1 .. MaxNodes}}

GeneratorInit ==
  /\ Start /\ instrumented = FALSE
  /\ InterpolatorAtRest /\ InterpolationTargetAtRest /\ OptionHolderAtRest
  /\ loop_nodes \in CollocationInputs \cup ArbitraryInputs
  /\ loop_values = <<>>
  /\ loop_target_points = <<>>
  /\ loop_interp_matrix = NoValue

LoopGenerators == Generators \ {"CollocationPointsAndWeightsGenerator"}

\* Whether the generator can be run on the nodes at hand: the barycentric
\* weights and the differentiation matrix are generic in the nodes, the
\* other generators belong to a quadrature.
Applicable(generator) ==
  \/ generator \in {"BarycentricWeightsGenerator",
                    "DifferentiationMatrixGenerator"}
  \/ loop_nodes.quadrature \in Quadratures

\* The generators whose values the call operator of `generator` reads.
Prerequisites(generator) ==
  LET order == CHOOSE o \in PrerequisiteOrders(loop_nodes.quadrature,
                                               generator) : TRUE
  IN  {GeneratorOf(order[p]) : p \in 1 .. Len(order)}
        \ {"CollocationPointsAndWeightsGenerator"}

\* generator(num_points) for the nodes at hand.
Applied(generator) ==
  LET d == loop_nodes.d
      num_points == loop_nodes.num_points
      x == loop_nodes.x
  IN  CASE generator = "BarycentricWeightsGenerator" ->
             BarycentricWeightsGenerator(d, num_points, x)
        [] generator = "DifferentiationMatrixGenerator" ->
             DifferentiationMatrixGenerator(
               d, num_points, x, loop_values["BarycentricWeightsGenerator"])
        [] generator = "SpectralToGridPointsMatrixGenerator" ->
             SpectralToGridPointsMatrixGenerator(d, num_points, x)
        [] generator = "GridPointsToSpectralMatrixGenerator" ->
             IF loop_nodes.quadrature = Gauss
               THEN GridPointsToSpectralMatrixGeneratorGauss(
                      d, num_points, loop_nodes.weights,
                      loop_values["SpectralToGridPointsMatrixGenerator"])
               ELSE GridPointsToSpectralMatrixGenerator(
                      d, num_points,
                      loop_values["SpectralToGridPointsMatrixGenerator"])
        [] generator = "LinearFilterMatrixGenerator" ->
             LinearFilterMatrixGenerator(
               d, num_points,
               loop_values["SpectralToGridPointsMatrixGenerator"],
               loop_values["GridPointsToSpectralMatrixGenerator"])

ApplyGenerator(generator) ==
  /\ generator \notin DOMAIN loop_values
  /\ Applicable(generator)
  /\ Prerequisites(generator) \subseteq DOMAIN loop_values
  /\ loop_values' = (generator :> Applied(generator)) @@ loop_values
  /\ UNCHANGED <<kernel, loop_nodes, loop_target_points, loop_interp_matrix,
                 interpolator, interpolation_target, wedge_section_torus>>

\* A target within round-off of a node is this far from it.
WithinRoundoff == Rat[1, 2000]

\* The targets handed to the loop of interpolation_matrix: one or two of a
\* node, a point within round-off of it and two points off the nodes, in
\* any order and repeated, or all the nodes.
LoopTargets ==
  LET x == loop_nodes.x
      values == {x[0], NAdd[x[0], WithinRoundoff], Rat[1, 2], Rat[-3, 4]}
  IN  {<<a>> : a \in values} \cup {<<a, b>> : a, b \in values}
        \cup {[k \in 1 .. loop_nodes.num_points |-> x[k - 1]]}

\* The loop over the target points of interpolation_matrix.
ApplyInterpolation ==
  /\ "BarycentricWeightsGenerator" \in DOMAIN loop_values
  /\ ~loop_interp_matrix.defined
  /\ \E targets \in LoopTargets :
       /\ loop_target_points' = targets
       /\ loop_interp_matrix' =
            Value(interpolation_matrix(
                    loop_nodes.d, loop_nodes.num_points, targets,
                    loop_nodes.x, loop_values["BarycentricWeightsGenerator"]))
  /\ UNCHANGED <<kernel, loop_nodes, loop_values, interpolator,
                 interpolation_target, wedge_section_torus>>

GeneratorNext ==
  \/ \E generator \in LoopGenerators : ApplyGenerator(generator)
  \/ ApplyInterpolation

GeneratorSpec == GeneratorInit /\ [][GeneratorNext]_vars


(***************************************************************************)
(* InterpolatorSpec: the interpolator of                                   *)
(* src/tests/Unit/NumericalAlgorithms/Interpolation/                       *)
(* Test_CleanUpInterpolator.cpp, which holds volume data for some temporal *)
(* ids and on which the runner invokes CleanUpInterpolator for the         *)
(* interpolation target tags, in any order.  A temporal id stands for a    *)
(* Time; an entry of VolumeVarsInfo holds no data, as in the test.         *)
(***************************************************************************)
\* The number of temporal ids the interpolator holds volume data for.
NumTemporalIds == 2

TemporalIdValues == 1 .. NumTemporalIds

\* The DataBox the test creates: an entry of VolumeVarsInfo for each
\* temporal id, no temporal id interpolated for any tag, nothing queued.
InterpolatorInit ==
  /\ Start /\ instrumented = FALSE
  /\ LoopsAtRest /\ InterpolationTargetAtRest /\ OptionHolderAtRest
  /\ volume_vars_info = TemporalIdValues
  /\ temporal_ids_when_data_has_been_interpolated =
       [tag \in InterpolationTargetTags |-> {}]
  /\ interpolator_queue = <<>>

\* this_temporal_id_is_done as soon as one tag has cleaned up.
this_temporal_id_is_doneForOneTag(holders, temporal_id) ==
  \E tag \in InterpolationTargetTags : temporal_id \in holders[tag]

\* Whether every interpolation target tag has cleaned up temporal_id.
this_temporal_id_is_done(holders, temporal_id) ==
  \A tag \in InterpolationTargetTags : temporal_id \in holders[tag]

\* The simple action intrp::Actions::CleanUpInterpolator<
\* InterpolationTargetTag, VolumeDim>, invoked with temporal_id: the tag
\* has cleaned up; once all tags have, the volume data of temporal_id and
\* the record of it in every tag go.  It sends no action.
CleanUpInterpolator(InterpolationTargetTag, temporal_id) ==
  LET holders ==
        [temporal_ids_when_data_has_been_interpolated
           EXCEPT ![InterpolationTargetTag] = @ \cup {temporal_id}]
  IN  /\ IF this_temporal_id_is_done(holders, temporal_id)
           THEN /\ volume_vars_info' = volume_vars_info \ {temporal_id}
                /\ temporal_ids_when_data_has_been_interpolated' =
                     [tag \in InterpolationTargetTags |->
                        holders[tag] \ {temporal_id}]
           ELSE /\ volume_vars_info' = volume_vars_info
                /\ temporal_ids_when_data_has_been_interpolated' = holders
      /\ UNCHANGED <<interpolator_queue, kernel, loops, interpolation_target,
                     wedge_section_torus>>

\* runner.simple_action<mock_interpolator, CleanUpInterpolator<Tag, 3>>(
\* 0, temporal_id), for any tag and temporal id.
InterpolatorNext ==
  \E InterpolationTargetTag \in InterpolationTargetTags,
     temporal_id \in TemporalIdValues :
       CleanUpInterpolator(InterpolationTargetTag, temporal_id)

InterpolatorSpec == InterpolatorInit /\ [][InterpolatorNext]_vars


(***************************************************************************)
(* InterpolationTargetSpec: the interpolation target of                    *)
(* src/tests/Unit/NumericalAlgorithms/Interpolation/                       *)
(* Test_AddTemporalIdsToInterpolationTarget.cpp, on which the runner       *)
(* invokes AddTemporalIdsToInterpolationTarget with vectors of temporal    *)
(* ids, and runs the simple actions the target has queued.                 *)
(***************************************************************************)
\* The most temporal ids the target's queue Tags::TemporalIds gets to hold.
MaxTemporalIds == 5

\* The vectors of temporal ids handed to the action: one id or two.
TemporalIdVectors ==
  {<<t>> : t \in TemporalIdValues}
    \cup {<<t, u>> : t, u \in TemporalIdValues}

InterpolationTargetInit ==
  /\ Start /\ instrumented = FALSE
  /\ LoopsAtRest /\ InterpolatorAtRest /\ OptionHolderAtRest
  /\ InterpolationTargetAtRest

\* begin_interpolation whatever the queue holds.
begin_interpolationAlways(ids) == TRUE

\* Whether the target is to start interpolating: it was waiting for no
\* temporal id.
begin_interpolation(ids) == ids = <<>>

\* The simple action intrp::Actions::AddTemporalIdsToInterpolationTarget<
\* InterpolationTargetTag>, invoked with temporal_ids_to_add: the ids go to
\* the back of Tags::TemporalIds, and a target that was waiting for none
\* sends itself compute_target_points for the id now in front.
AddTemporalIdsToInterpolationTarget(temporal_ids_to_add) ==
  /\ Len(temporal_ids) + Len(temporal_ids_to_add) <= MaxTemporalIds
  /\ temporal_ids' = temporal_ids \o temporal_ids_to_add
  /\ target_queue' =
       IF begin_interpolation(temporal_ids)
         THEN Append(target_queue,
                     [action |-> "compute_target_points",
                      temporal_id |-> Head(temporal_ids')])
         ELSE target_queue
  /\ UNCHANGED <<indices_of_filled_interp_points, kernel, loops, interpolator,
                 wedge_section_torus>>

\* MockComputeTargetPoints::apply: it leaves a mark in
\* IndicesOfFilledInterpPoints.
MockComputeTargetPoints(temporal_id) ==
  indices_of_filled_interp_points' =
    indices_of_filled_interp_points
      \cup {Cardinality(indices_of_filled_interp_points) + 1}

\* runner.invoke_queued_simple_action: the action in front of the queue
\* runs.
invoke_queued_simple_action ==
  /\ target_queue # <<>>
  /\ MockComputeTargetPoints(Head(target_queue).temporal_id)
  /\ target_queue' = Tail(target_queue)
  /\ UNCHANGED <<temporal_ids, kernel, loops, interpolator,
                 wedge_section_torus>>

InterpolationTargetNext ==
  \/ \E temporal_ids_to_add \in TemporalIdVectors :
        AddTemporalIdsToInterpolationTarget(temporal_ids_to_add)
  \/ invoke_queued_simple_action

InterpolationTargetSpec ==
  InterpolationTargetInit /\ [][InterpolationTargetNext]_vars


(***************************************************************************)
(* WedgeSectionTorusSpec: the constructor of the option holder             *)
(* intrp::OptionHolders::WedgeSectionTorus, called once with any options.  *)
(* A double is a number of the field or NaN; `>=` is the comparison of     *)
(* doubles, false when an operand is NaN.                                  *)
(***************************************************************************)
\* The numbers of points handed in are 0 .. MaxGridPoints.
MaxGridPoints == 1

\* The doubles handed in as radii and angles.
DoubleValues == {Zero, One, Rat[2, 1], NaN}

\* The arguments of the constructor, but for the OptionContext.
OptionValues ==
  [min_radius : DoubleValues, max_radius : DoubleValues,
   min_theta : DoubleValues, max_theta : DoubleValues,
   number_of_radial_points : 0 .. MaxGridPoints,
   number_of_theta_points : 0 .. MaxGridPoints,
   number_of_phi_points : 0 .. MaxGridPoints,
   use_uniform_radial_grid : BOOLEAN, use_uniform_theta_grid : BOOLEAN]

\* a >= b of two doubles.
GreaterEqual(a, b) ==
  IsFinite(a) /\ IsFinite(b) /\ Sign[1, NSub[a, b]] >= 0

\* a > b of two doubles.
Greater(a, b) == IsFinite(a) /\ IsFinite(b) /\ Sign[1, NSub[a, b]] > 0

\* PARSE_ERROR(context, m): the constructor is left by an exception that
\* carries the message, and no object comes to be.
PARSE_ERROR(m) == [constructed |-> FALSE, parse_error |-> m, holder |-> <<>>]

\* The constructor with > in place of >= in both checks.
WedgeSectionTorusComparingStrictly(options) ==
  LET this == [min_radius |-> options.min_radius,
               max_radius |-> options.max_radius,
               min_theta |-> options.min_theta,
               max_theta |-> options.max_theta,
               number_of_radial_points |-> options.number_of_radial_points,
               number_of_theta_points |-> options.number_of_theta_points,
               number_of_phi_points |-> options.number_of_phi_points,
               use_uniform_radial_grid |-> options.use_uniform_radial_grid,
               use_uniform_theta_grid |-> options.use_uniform_theta_grid]
  IN  IF Greater(this.min_radius, this.max_radius)
        THEN PARSE_ERROR("WedgeSectionTorus expects min_radius < max_radius")
      ELSE IF Greater(this.min_theta, this.max_theta)
        THEN PARSE_ERROR("WedgeSectionTorus expects min_theta < max_theta")
      ELSE [constructed |-> TRUE, parse_error |-> "none", holder |-> this]

\* WedgeSectionTorus::WedgeSectionTorus: the member initializers, then the
\* two checks on the members, in their order.
WedgeSectionTorus(options) ==
  LET this == [min_radius |-> options.min_radius,
               max_radius |-> options.max_radius,
               min_theta |-> options.min_theta,
               max_theta |-> options.max_theta,
               number_of_radial_points |-> options.number_of_radial_points,
               number_of_theta_points |-> options.number_of_theta_points,
               number_of_phi_points |-> options.number_of_phi_points,
               use_uniform_radial_grid |-> options.use_uniform_radial_grid,
               use_uniform_theta_grid |-> options.use_uniform_theta_grid]
  IN  IF GreaterEqual(this.min_radius, this.max_radius)
        THEN PARSE_ERROR("WedgeSectionTorus expects min_radius < max_radius")
      ELSE IF GreaterEqual(this.min_theta, this.max_theta)
        THEN PARSE_ERROR("WedgeSectionTorus expects min_theta < max_theta")
      ELSE [constructed |-> TRUE, parse_error |-> "none", holder |-> this]

WedgeSectionTorusInit ==
  /\ Start /\ instrumented = FALSE
  /\ LoopsAtRest /\ InterpolatorAtRest /\ InterpolationTargetAtRest
  /\ wedge_section_torus = NoOptionHolder

\* The option parser constructs the holder from the options it has read.
Construct(options) ==
  /\ ~wedge_section_torus.constructed
  /\ wedge_section_torus.parse_error = "none"
  /\ LET made == WedgeSectionTorus(options)
     IN  wedge_section_torus' =
           [options |-> options, constructed |-> made.constructed,
            parse_error |-> made.parse_error, holder |-> made.holder]
  /\ UNCHANGED <<kernel, loops, interpolator, interpolation_target>>

WedgeSectionTorusNext == \E options \in OptionValues : Construct(options)

WedgeSectionTorusSpec ==
  WedgeSectionTorusInit /\ [][WedgeSectionTorusNext]_vars


(***************************************************************************)
(* Notions the claims are stated with.                                     *)
(***************************************************************************)
\* The cache: the guards and entries of all the statics, and the count of
\* generator calls.
cache == <<guard, data, invocations>>

\* The request of thread t names a supported (basis, quadrature) pair.
Supported(t) ==
  /\ thr[t].request.basis = Legendre
  /\ thr[t].request.quadrature \in Quadratures

\* The request of thread t names a supported pair and a num_points below
\* the pair's minimum or above the maximum.
OutOfRange(t) ==
  /\ Supported(t)
  /\ \/ thr[t].request.num_points <
          minimum_number_of_points(thr[t].request.quadrature)
     \/ thr[t].request.num_points > maximum_number_of_points

\* The static that the request of thread t reads.
RequestStatic(t) ==
  <<thr[t].request.quadrature, GeneratorOf(thr[t].request.function_name)>>

\* Thread t has been returned the value of a cached quantity.
ReturnedCached(t) ==
  /\ thr[t].status = "returned"
  /\ thr[t].request.function_name \in CachedFunctions

\* C1: a request with num_points out of range ends in a RangeError as soon
\* as the accessor (or interpolation_matrix) is entered; it never returns,
\* and no step of it changes the cache: no guard, no entry, no generator
\* call.
C1_RangeErrorBeforeGenerators ==
  [][\A t \in Threads :
       (thr[t].status = "running" /\ OutOfRange(t)) =>
         /\ cache' = cache
         /\ thr'[t].status \in {"running", "RangeError"}
         /\ (Top(t).kind # "mesh" /\ thr'[t] # thr[t]
               => thr'[t].status = "RangeError")]_vars

\* A request out of range has failed, after earlier requests had filled
\* some of the cache.
C1_Witness ==
  \E t \in Threads :
     /\ thr[t].status = "RangeError"
     /\ OutOfRange(t)
     /\ thr[t].request.function_name = "interpolation_matrix"
     /\ \E s \in Statics : guard[s] = "done"

\* C2: no generator is called twice for a key; an entry, once there, stays
\* with its value; and a returned cached quantity is that entry.
C2_ComputedOnceAndKept ==
  /\ [](\A s \in Statics : \A n \in DOMAIN invocations[s] :
          invocations[s][n] <= 1)
  /\ [][\A s \in Statics : \A n \in DOMAIN data[s] :
          n \in DOMAIN data'[s] /\ data'[s][n] = data[s][n]]_vars
  /\ [](\A t \in Threads :
          (ReturnedCached(t) /\ Supported(t)) =>
             /\ thr[t].request.num_points \in DOMAIN data[RequestStatic(t)]
             /\ thr[t].result =
                  Select(thr[t].request.function_name,
                         data[RequestStatic(t)][thr[t].request.num_points])
             /\ thr[t].result.defined)

\* A later request for a key: it returned the entry and called no
\* generator.
C2_Witness ==
  \E t \in Threads :
     /\ ReturnedCached(t)
     /\ thr[t].computed = 0
     /\ thr[t].result.defined
     /\ invocations[RequestStatic(t)][thr[t].request.num_points] = 1


\* The frames of thread t that run the initializer of static s.
InitializerFrames(t, s) ==
  {p \in 1 .. Len(thr[t].stack) :
     /\ thr[t].stack[p].kind = "init"
     /\ <<thr[t].stack[p].quadrature, thr[t].stack[p].function_name>> = s}

\* The threads that run the initializer of static s.
Initializers(s) == {t \in Threads : InitializerFrames(t, s) # {}}

\* The static thread t is about to read: the one of the accessor call on
\* top of its stack.
StaticAhead(t) == <<Top(t).quadrature, GeneratorOf(Top(t).function_name)>>

\* Thread t waits: the initializer of the static it is about to read is
\* running.
Waits(t) ==
  /\ thr[t].status = "running"
  /\ Top(t).kind = "call"
  /\ guard[StaticAhead(t)] = "running"

\* C3, as claimed: an entry is there only if its own num_points was asked
\* for, directly or as a prerequisite.
C3_Original_EntryOnlyOnceRequested ==
  \A s \in Statics : \A n \in DOMAIN data[s] :
     <<s[1], s[2], n>> \in requested

\* C3, amended: the entries of a (quadrature, generator) are created on
\* the first request to that pair, whatever num_points it asks for: while
\* no num_points has been asked of the pair, its static is not
\* initialized and holds no entry.
C3_EntriesOnlyOnceStaticRequested ==
  \A s \in Statics :
     (guard[s] # "uninit" \/ DOMAIN data[s] # {}) =>
        \E n \in RequestSizes : <<s[1], s[2], n>> \in requested

\* A static is initialized, asked for some num_points and not for others,
\* whose entries are there all the same.
C3_Witness ==
  \E s \in Statics :
     /\ guard[s] = "done"
     /\ \E n \in RequestSizes : <<s[1], s[2], n>> \in requested
     /\ \E n \in DOMAIN data[s] : <<s[1], s[2], n>> \notin requested

\* C4: for each key the generator is called by at most one thread, once;
\* at most one thread runs the initializer of a static, and one does as
\* long as the guard says so; no call is ever returned an entry that is
\* not constructed: a returned quantity is the finished entry of an
\* initialized static.
C4_ComputedByOneReadWhenComplete ==
  /\ \A s \in Statics :
        /\ \A n \in DOMAIN invocations[s] : invocations[s][n] <= 1
        /\ Cardinality(Initializers(s)) <= 1
        /\ guard[s] = "running" <=> Initializers(s) # {}
        /\ guard[s] = "done" => \A n \in DOMAIN data[s] : data[s][n].defined
  /\ \A t \in Threads :
        /\ \A p \in 1 .. Len(thr[t].stack) :
              \A a \in 1 .. Len(thr[t].stack[p].args) :
                 thr[t].stack[p].args[a].defined
        /\ ReturnedCached(t) =>
              /\ guard[RequestStatic(t)] = "done"
              /\ thr[t].result.defined
              /\ invocations[RequestStatic(t)][thr[t].request.num_points] = 1
              /\ thr[t].result =
                   Select(thr[t].request.function_name,
                          data[RequestStatic(t)][thr[t].request.num_points])

\* Two threads have asked for the same key: one runs the initializer, the
\* other waits for it.
C4_Witness ==
  \E t, u \in Threads :
     /\ t # u
     /\ thr[t].status = "running" /\ thr[u].status = "running"
     /\ thr[t].request = thr[u].request
     /\ t \in Initializers(RequestStatic(t))
     /\ Waits(u) /\ StaticAhead(u) = RequestStatic(t)

\* The thread that thread t waits for: the one running the initializer of
\* the static t is about to read (t itself if no thread at all does).
WaitsFor(t) ==
  IF Initializers(StaticAhead(t)) = {} THEN t
  ELSE CHOOSE u \in Initializers(StaticAhead(t)) : TRUE

\* Thread t waits, for a thread that waits, ... , k times over, for u.
RECURSIVE WaitChain(_, _, _)
WaitChain(t, k, u) ==
  /\ Waits(t)
  /\ IF k = 1 THEN WaitsFor(t) = u
     ELSE WaitChain(WaitsFor(t), k - 1, u)

\* C5: no thread waits for an initialization that it runs itself, or that
\* is run by a thread that in turn waits for it, directly or through
\* other waiting threads; and every request, once made, returns.
C5_NoDeadlock ==
  /\ [](\A t \in Threads : \A k \in 1 .. NumThreads : ~WaitChain(t, k, t))
  /\ \A t \in Threads :
        (thr[t].status = "running") ~> (thr[t].status = "returned")

\* A thread that runs an initializer waits, in a prerequisite call, for an
\* initializer that another thread runs.
C5_Witness ==
  \E t, u \in Threads :
     /\ t # u
     /\ Waits(t) /\ WaitsFor(t) = u
     /\ \E s \in Statics : t \in Initializers(s)
     /\ Len(thr[u].stack) >= 4


\* What generator(num_points) evaluates to when each accessor it calls
\* returns what the generator of that accessor evaluates to: the generators
\* composed as the code composes them, with no cache in between.
RECURSIVE Composed(_, _, _)
Composed(QuadratureType, generator, num_points) ==
  LET order ==
        CHOOSE o \in PrerequisiteOrders(QuadratureType, generator) : TRUE
  IN  Generate(QuadratureType, generator, num_points, order,
               [p \in 1 .. Len(order) |->
                  Select(order[p],
                         Composed(QuadratureType, GeneratorOf(order[p]),
                                  num_points))])

\* What function_name<Legendre, QuadratureType>(num_points[, target_points])
\* evaluates to, with no cache and no dispatch in between.
Direct(function_name, QuadratureType, num_points, target_points) ==
  IF function_name = "interpolation_matrix"
    THEN Value(interpolation_matrix(
           Radicand(QuadratureType, num_points), num_points, target_points,
           Composed(QuadratureType, "CollocationPointsAndWeightsGenerator",
                    num_points).value.first,
           Composed(QuadratureType, "BarycentricWeightsGenerator",
                    num_points).value))
    ELSE Select(function_name,
                Composed(QuadratureType, GeneratorOf(function_name),
                         num_points))

\* C6: a request that has returned, made through a mesh or directly, has
\* returned what the operation evaluates to for the request's quadrature
\* and num_points (the mesh's extent): the two ways return the same.
C6_MeshEqualsDirect ==
  \A t \in Threads :
     thr[t].status = "returned" =>
        /\ Supported(t)
        /\ thr[t].result.defined
        /\ thr[t].result =
             Direct(thr[t].request.function_name, thr[t].request.quadrature,
                    thr[t].request.num_points, thr[t].request.target_points)

\* A mesh-level interpolation_matrix on Gauss-Lobatto points has returned.
C6_Witness ==
  \E t \in Threads :
     /\ thr[t].status = "returned"
     /\ thr[t].request.api = "mesh"
     /\ thr[t].request.function_name = "interpolation_matrix"
     /\ thr[t].request.quadrature = GaussLobatto
     /\ thr[t].result.defined

\* The request of thread t was made through a mesh whose tags are not a
\* supported pair.
UnsupportedMesh(t) == thr[t].request.api = "mesh" /\ ~Supported(t)

\* C7: a mesh request with unsupported tags ends in the
\* unsupported-combination error at its first step; no step of it changes
\* the cache (no guard, no entry, no generator call) and it is never
\* returned a value.
C7_UnsupportedMeshIsFatal ==
  [][\A t \in Threads :
       (thr[t].status = "running" /\ UnsupportedMesh(t)) =>
          /\ cache' = cache
          /\ thr'[t].result = NoValue
          /\ thr'[t].status \in {"running", "UnsupportedCombination"}
          /\ thr'[t] # thr[t] => thr'[t].status = "UnsupportedCombination"]_vars

\* A mesh with a supported basis and an unsupported quadrature has ended in
\* the error, in a process whose cache holds entries.
C7_Witness ==
  \E t \in Threads :
     /\ thr[t].status = "UnsupportedCombination"
     /\ thr[t].request.basis = Legendre
     /\ thr[t].request.quadrature \notin Quadratures
     /\ \E s \in Statics : guard[s] = "done"

\* C8: wherever the cache holds grid_points_to_spectral_matrix(N), of
\* either quadrature (the Gauss one is analytic, the Gauss-Lobatto one is
\* inverted numerically), its product with spectral_to_grid_points_matrix(N)
\* is the N x N identity.
C8_TransformsAreInverse ==
  \A QuadratureType \in Quadratures :
     \A num_points \in
          DOMAIN data[<<QuadratureType, "GridPointsToSpectralMatrixGenerator">>] :
        LET g2s == data[<<QuadratureType,
                          "GridPointsToSpectralMatrixGenerator">>][num_points]
            s2g == data[<<QuadratureType,
                          "SpectralToGridPointsMatrixGenerator">>][num_points]
        IN  /\ g2s.defined /\ s2g.defined
            /\ MatMul(Radicand(QuadratureType, num_points), g2s.value,
                      s2g.value) = Identity(num_points)

\* The transforms of both quadratures are in the cache, for the largest N.
C8_Witness ==
  \A QuadratureType \in Quadratures :
     /\ guard[<<QuadratureType, "GridPointsToSpectralMatrixGenerator">>] = "done"
     /\ maximum_number_of_points \in
          DOMAIN data[<<QuadratureType, "GridPointsToSpectralMatrixGenerator">>]

\* C9: the Gauss grid_points_to_spectral_matrix(N) that the cache holds,
\* computed analytically, is the matrix the generic generator returns for
\* the same Vandermonde matrix by inverting it.
C9_AnalyticEqualsInversion ==
  \A num_points \in
       DOMAIN data[<<Gauss, "GridPointsToSpectralMatrixGenerator">>] :
     LET g2s == data[<<Gauss, "GridPointsToSpectralMatrixGenerator">>][num_points]
         s2g == data[<<Gauss, "SpectralToGridPointsMatrixGenerator">>][num_points]
     IN  /\ g2s.defined /\ s2g.defined
         /\ g2s.value =
              GridPointsToSpectralMatrixGenerator(
                Radicand(Gauss, num_points), num_points, s2g.value)

\* The cache holds a Gauss grid_points_to_spectral_matrix that is not the
\* identity.
C9_Witness ==
  /\ guard[<<Gauss, "GridPointsToSpectralMatrixGenerator">>] = "done"
  /\ \E num_points \in
          DOMAIN data[<<Gauss, "GridPointsToSpectralMatrixGenerator">>] :
        data[<<Gauss, "GridPointsToSpectralMatrixGenerator">>][num_points].value
          # Identity(num_points)

\* The sum of the entries of row i of D in the columns below upto, the
\* diagonal left out or not.
RECURSIVE SumOfRow(_, _, _, _)
SumOfRow(D, i, upto, with_diagonal) ==
  IF upto = 0 THEN Zero
  ELSE NAdd[SumOfRow(D, i, upto - 1, with_diagonal),
            IF upto - 1 = i /\ ~with_diagonal THEN Zero
            ELSE At(D, i, upto - 1)]

\* C10: in every differentiation matrix the cache holds, each diagonal
\* entry is minus the sum of the other entries of its row and each row
\* sums to zero; the matrix for one point is the single entry 0.
C10_DifferentiationRowsSumToZero ==
  \A QuadratureType \in Quadratures :
     \A num_points \in
          DOMAIN data[<<QuadratureType, "DifferentiationMatrixGenerator">>] :
        LET entry == data[<<QuadratureType,
                            "DifferentiationMatrixGenerator">>][num_points]
            D == entry.value
        IN  /\ entry.defined
            /\ D.rows = num_points /\ D.cols = num_points
            /\ \A i \in Idx(num_points) :
                 /\ At(D, i, i) = NNeg[SumOfRow(D, i, num_points, FALSE)]
                 /\ SumOfRow(D, i, num_points, TRUE) = Zero
            /\ num_points = 1 => D.data = [p \in {0} |-> Zero]

\* The cache holds the Gauss differentiation matrices for one point and
\* for more, the latter with a diagonal entry that is not zero.
C10_Witness ==
  LET s == <<Gauss, "DifferentiationMatrixGenerator">>
  IN  /\ guard[s] = "done"
      /\ 1 \in DOMAIN data[s]
      /\ \E num_points \in DOMAIN data[s] :
           /\ num_points > 1
           /\ At(data[s][num_points].value, 0, 0) # Zero

\* The request of thread t is interpolation_matrix for a supported pair,
\* and it has returned.
ReturnedInterpolation(t) ==
  /\ thr[t].status = "returned"
  /\ thr[t].request.function_name = "interpolation_matrix"
  /\ Supported(t)

\* The collocation points the cache holds for the request of thread t.
RequestNodes(t) ==
  data[<<thr[t].request.quadrature,
         "CollocationPointsAndWeightsGenerator">>][thr[t].request.num_points]
    .value.first

\* C11: interpolation_matrix, asked to interpolate to the N collocation
\* points of its own (quadrature, N), in their order, has returned the
\* N x N identity matrix.
C11_InterpolationToNodesIsIdentity ==
  \A t \in Threads :
     (/\ ReturnedInterpolation(t)
      /\ DataVector(thr[t].request.target_points) = RequestNodes(t)) =>
        /\ thr[t].result.defined
        /\ thr[t].result.value = Identity(thr[t].request.num_points)

\* interpolation_matrix has returned for the Gauss points of the largest
\* N as targets: nodes that are not rational.
C11_Witness ==
  \E t \in Threads :
     /\ ReturnedInterpolation(t)
     /\ thr[t].request.quadrature = Gauss
     /\ thr[t].request.num_points = maximum_number_of_points
     /\ DataVector(thr[t].request.target_points) = RequestNodes(t)
     /\ thr[t].result.defined

\* The generator has been run on the nodes at hand.
Has(generator) == generator \in DOMAIN loop_values

\* C12: the linear filter matrix of N >= 2 collocation points, multiplied
\* by itself, is itself.
C12_FilterIsIdempotent ==
  (Has("LinearFilterMatrixGenerator") /\ loop_nodes.num_points >= 2) =>
     LET filter == loop_values["LinearFilterMatrixGenerator"]
     IN  MatMul(loop_nodes.d, filter, filter) = filter

\* The filter of the Gauss points of three nodes or more has been
\* computed: a projector that is not the identity.
C12_Witness ==
  /\ Has("LinearFilterMatrixGenerator")
  /\ loop_nodes.quadrature = Gauss
  /\ loop_nodes.num_points >= 3
  /\ loop_values["LinearFilterMatrixGenerator"]
       # Identity(loop_nodes.num_points)

\* The tags other than `tag` have all cleaned up temporal_id.
OthersHaveCleanedUp(tag, temporal_id) ==
  \A other \in InterpolationTargetTags \ {tag} :
     temporal_id \in temporal_ids_when_data_has_been_interpolated[other]

\* C13: every step of the interpolator is a clean-up of one temporal id t
\* by one tag.  While another tag has not cleaned up t, the step records t
\* for that tag, leaves the other tags' sets and VolumeVarsInfo as they
\* are.  When the tag is the last one, whichever it is, the step erases
\* t from VolumeVarsInfo and from every tag's set, and nothing else.  No
\* step queues an action, and no temporal id is ever recorded for all the
\* tags at once.
C13_CleanUpWhenLastTagIsDone ==
  /\ [][\E tag \in InterpolationTargetTags, t \in TemporalIdValues :
          /\ interpolator_queue' = <<>>
          /\ IF OthersHaveCleanedUp(tag, t)
               THEN /\ volume_vars_info' = volume_vars_info \ {t}
                    /\ \A any \in InterpolationTargetTags :
                         temporal_ids_when_data_has_been_interpolated'[any] =
                           temporal_ids_when_data_has_been_interpolated[any]
                             \ {t}
               ELSE /\ volume_vars_info' = volume_vars_info
                    /\ temporal_ids_when_data_has_been_interpolated'[tag] =
                         temporal_ids_when_data_has_been_interpolated[tag]
                           \cup {t}
                    /\ \A other \in InterpolationTargetTags \ {tag} :
                         temporal_ids_when_data_has_been_interpolated'[other]
                           = temporal_ids_when_data_has_been_interpolated[other]
       ]_vars
  /\ [](\A t \in TemporalIdValues :
          \E tag \in InterpolationTargetTags :
             t \notin temporal_ids_when_data_has_been_interpolated[tag])

\* All the tags have cleaned up one temporal id, whose volume data is
\* gone, while another temporal id, cleaned up by some of the tags, still
\* has its volume data.
C13_Witness ==
  \E t, u \in TemporalIdValues :
     /\ t \notin volume_vars_info
     /\ \A tag \in InterpolationTargetTags :
          t \notin temporal_ids_when_data_has_been_interpolated[tag]
     /\ u \in volume_vars_info
     /\ \E tag \in InterpolationTargetTags :
          u \in temporal_ids_when_data_has_been_interpolated[tag]

\* The compute_target_points actions the target has sent itself so far:
\* those that have run, each of which left a mark, and those queued.
ComputeTargetPointsSent ==
  Cardinality(indices_of_filled_interp_points) + Len(target_queue)

\* C14: a step that adds temporal ids puts a vector of them, in its
\* order, behind the ids the queue TemporalIds held; it queues
\* compute_target_points, for the first id added, if TemporalIds was empty
\* before, and it queues nothing if TemporalIds held an id.  So one
\* compute_target_points has been sent once ids have been added, however
\* many calls added them, and it is for the id in front.
C14_ComputeTargetPointsWhenQueueWasEmpty ==
  /\ [][temporal_ids' # temporal_ids =>
          \E ids \in TemporalIdVectors :
             /\ temporal_ids' = temporal_ids \o ids
             /\ target_queue' =
                  IF temporal_ids = <<>>
                    THEN Append(target_queue,
                                [action |-> "compute_target_points",
                                 temporal_id |-> ids[1]])
                    ELSE target_queue]_vars
  /\ [](/\ ComputeTargetPointsSent = IF temporal_ids = <<>> THEN 0 ELSE 1
        /\ \A p \in 1 .. Len(target_queue) :
             target_queue[p] = [action |-> "compute_target_points",
                                temporal_id |-> temporal_ids[1]])

\* Temporal ids were added by a second call, after compute_target_points
\* had run: nothing is queued.
C14_Witness ==
  /\ Len(temporal_ids) > 2
  /\ indices_of_filled_interp_points # {}
  /\ target_queue = <<>>

\* The product over k < upto, k # j, of x[j] - x[k].
RECURSIVE ProductOfDifferences(_, _, _, _)
ProductOfDifferences(d, x, j, upto) ==
  IF upto = 0 THEN One
  ELSE NMul[d, ProductOfDifferences(d, x, j, upto - 1),
            IF upto - 1 = j THEN One ELSE NSub[x[j], x[upto - 1]]]

\* C15: the barycentric weights generator, run on N pairwise distinct
\* nodes x (collocation points or not, in any order), has returned N
\* weights, the j-th of which is 1 over the product of x_j - x_k over the
\* k # j; for one node the weight is 1.
C15_BarycentricWeightsAreInverseProducts ==
  Has("BarycentricWeightsGenerator") =>
     LET w == loop_values["BarycentricWeightsGenerator"]
         x == loop_nodes.x
         num_points == loop_nodes.num_points
     IN  /\ DOMAIN w = Idx(num_points)
         /\ \A j \in Idx(num_points) :
              w[j] = NDiv[loop_nodes.d, One,
                          ProductOfDifferences(loop_nodes.d, x, j, num_points)]
         /\ num_points = 1 => w[0] = One

\* The weights of the most nodes drawn, which are no collocation points
\* and are not in increasing order, have been computed.
C15_Witness ==
  /\ Has("BarycentricWeightsGenerator")
  /\ loop_nodes.quadrature = "none"
  /\ loop_nodes.num_points = MaxNodes
  /\ Sign[1, NSub[loop_nodes.x[1], loop_nodes.x[0]]] < 0

\* C16: in the differentiation matrix of the nodes x, every entry (i, j)
\* off the diagonal is bary[j] / (bary[i] * (x_i - x_j)), with bary the
\* barycentric weights of the same nodes.
C16_OffDiagonalEntries ==
  Has("DifferentiationMatrixGenerator") =>
     LET D == loop_values["DifferentiationMatrixGenerator"]
         bary == loop_values["BarycentricWeightsGenerator"]
         x == loop_nodes.x
         d == loop_nodes.d
     IN  \A i, j \in Idx(loop_nodes.num_points) :
            i # j =>
              At(D, i, j) =
                NDiv[d, bary[j], NMul[d, bary[i], NSub[x[i], x[j]]]]

\* The differentiation matrix of the Gauss-Lobatto points of three nodes
\* or more has been computed, with entries (0, 1) and (1, 0) that differ.
C16_Witness ==
  /\ Has("DifferentiationMatrixGenerator")
  /\ loop_nodes.quadrature = GaussLobatto
  /\ loop_nodes.num_points >= 3
  /\ At(loop_values["DifferentiationMatrixGenerator"], 0, 1)
       # At(loop_values["DifferentiationMatrixGenerator"], 1, 0)

\* The sum over k < upto of S(i, k) * G(k, j).
RECURSIVE SumOfModes(_, _, _, _, _, _)
SumOfModes(d, S, G, i, j, upto) ==
  IF upto = 0 THEN Zero
  ELSE NAdd[SumOfModes(d, S, G, i, j, upto - 1),
            NMul[d, At(S, i, upto - 1), At(G, upto - 1, j)]]

Interpolated == loop_interp_matrix.defined

\* Target k of the loop, k = 0, 1, ...
Target(k) == loop_target_points[k + 1]

\* Target k equals node j within round-off.
Matches(k, j) ==
  equal_within_roundoff(loop_nodes.d, Target(k), loop_nodes.x[j])

\* C18: in the matrix the loop of interpolation_matrix returns, the row of
\* a target that equals a node within round-off, exactly or not, is 1 in
\* the column of that node and 0 in every other column: the entries are
\* these numbers themselves, not the quotients of the barycentric formula,
\* whose divisor is zero for a target that is a node.
C18_MatchedRowIsOneHot ==
  Interpolated =>
     \A k \in Idx(Len(loop_target_points)) :
        \A j \in Idx(loop_nodes.num_points) :
           Matches(k, j) =>
              \A c \in Idx(loop_nodes.num_points) :
                 At(loop_interp_matrix.value, k, c) =
                   IF c = j THEN One ELSE Zero

\* The loop has run for two or more nodes and two targets: one within
\* round-off of a node and not equal to it, one that is no node.
C18_Witness ==
  /\ Interpolated
  /\ loop_nodes.num_points >= 2
  /\ Len(loop_target_points) = 2
  /\ Matches(0, 0) /\ Target(0) # loop_nodes.x[0]
  /\ \A j \in Idx(loop_nodes.num_points) : ~Matches(1, j)

\* The sum over j < upto of bary[j] / (t - x[j]).
RECURSIVE SumOfQuotients(_, _, _, _, _)
SumOfQuotients(d, bary, x, t, upto) ==
  IF upto = 0 THEN Zero
  ELSE NAdd[SumOfQuotients(d, bary, x, t, upto - 1),
            NDiv[d, bary[upto - 1], NSub[t, x[upto - 1]]]]

\* C19: the matrix the loop of interpolation_matrix returns has a row for
\* each target and a column for each node.  In the row of a target t that
\* matches no node, entry j is bary[j] / (t - x_j) over the sum of these
\* quotients over all the nodes, and the row sums to 1.  Rows of equal
\* targets are equal, wherever they stand among the targets.
C19_UnmatchedRowIsBarycentric ==
  Interpolated =>
     LET M == loop_interp_matrix.value
         d == loop_nodes.d
         x == loop_nodes.x
         num_points == loop_nodes.num_points
         bary == loop_values["BarycentricWeightsGenerator"]
     IN  /\ M.rows = Len(loop_target_points) /\ M.cols = num_points
         /\ \A k \in Idx(M.rows) :
              (\A j \in Idx(num_points) : ~Matches(k, j)) =>
                 /\ \A j \in Idx(num_points) :
                      At(M, k, j) =
                        NDiv[d, NDiv[d, bary[j], NSub[Target(k), x[j]]],
                             SumOfQuotients(d, bary, x, Target(k), num_points)]
                 /\ SumOfRow(M, k, num_points, TRUE) = One
         /\ \A k, l \in Idx(M.rows) :
              Target(k) = Target(l) =>
                 \A j \in Idx(num_points) : At(M, k, j) = At(M, l, j)

\* The loop has run for the most nodes drawn and two targets that match
\* no node, the larger one first.
C19_Witness ==
  /\ Interpolated
  /\ loop_nodes.num_points = MaxNodes
  /\ Len(loop_target_points) = 2
  /\ \A k \in Idx(2) : \A j \in Idx(loop_nodes.num_points) : ~Matches(k, j)
  /\ Sign[loop_nodes.d, NSub[Target(0), Target(1)]] > 0

\* The request of thread t is a call of a cached accessor of a supported
\* pair with num_points in range.
ValidCachedRequest(t) ==
  /\ thr[t].request.function_name \in CachedFunctions
  /\ Supported(t)
  /\ ~OutOfRange(t)

\* C20: once the static of a (quadrature, generator kind) is initialized,
\* which the first valid request to it brings about before it returns,
\* the cache holds the quantity for every num_points of the range of the
\* quadrature, each computed by one call of the generator, whatever
\* num_points was asked for; from then on the static stays initialized
\* with these entries, and a request to it runs no generator at all.
C20_FirstRequestComputesWholeRange ==
  /\ [](\A s \in Statics :
          guard[s] = "done" =>
             /\ DOMAIN data[s] = CacheRange(s[1])
             /\ \A n \in CacheRange(s[1]) :
                  data[s][n].defined /\ invocations[s][n] = 1)
  /\ [](\A t \in Threads :
          (thr[t].status = "returned" /\ ValidCachedRequest(t)) =>
             guard[RequestStatic(t)] = "done")
  /\ [][\A s \in Statics :
          guard[s] = "done" =>
             /\ guard'[s] = "done"
             /\ data'[s] = data[s]
             /\ invocations'[s] = invocations[s]]_vars
  /\ [][\A t \in Threads :
          (/\ thr[t].status = "running"
           /\ ValidCachedRequest(t)
           /\ guard[RequestStatic(t)] = "done") =>
             invocations' = invocations]_vars

\* A request for the smallest num_points of Gauss has run generators and
\* returned, and the cache holds the entry of the largest num_points.
C20_Witness ==
  \E t \in Threads :
     /\ thr[t].status = "returned"
     /\ ValidCachedRequest(t)
     /\ thr[t].request.quadrature = Gauss
     /\ thr[t].request.num_points = minimum_number_of_points(Gauss)
     /\ thr[t].computed > 0
     /\ maximum_number_of_points > thr[t].request.num_points
     /\ maximum_number_of_points \in DOMAIN data[RequestStatic(t)]

\* The accessors that return one half of the pair of points and weights.
Halves == {"collocation_points", "quadrature_weights"}

\* The static of CollocationPointsAndWeightsGenerator<Legendre, q>.
PointsAndWeights(q) == <<q, "CollocationPointsAndWeightsGenerator">>

\* `returned` is what a call of function_name<Legendre, q>(num_points) must
\* return: the half of the one entry of the cache for num_points, which
\* is there, was computed by one call of the primitive generator, and is
\* what that generator returns.
FromTheOneEntry(q, num_points, function_name, returned) ==
  LET s == PointsAndWeights(q)
  IN  /\ num_points \in DOMAIN data[s]
      /\ invocations[s][num_points] = 1
      /\ data[s][num_points] =
           Value(CollocationPointsAndWeightsGenerator(q, num_points))
      /\ returned =
           Value(IF function_name = "collocation_points"
                   THEN data[s][num_points].value.first
                   ELSE data[s][num_points].value.second)

\* C21: collocation_points and quadrature_weights of a (quadrature, N) read
\* one entry of one cache: the primitive generator is never called twice
\* for an N, and every value that a call of either accessor has returned,
\* to the caller, to a generator or to interpolation_matrix, is the first
\* or the second half of the pair that the single call for that N made.
C21_PointsAndWeightsShareOneEntry ==
  /\ \A q \in Quadratures : \A n \in CacheRange(q) :
       invocations[PointsAndWeights(q)][n] <= 1
  /\ \A t \in Threads :
       /\ \A p \in DOMAIN thr[t].stack :
            LET f == thr[t].stack[p]
            IN  \A a \in DOMAIN f.args :
                  f.order[a] \in Halves =>
                    FromTheOneEntry(f.quadrature, f.num_points, f.order[a],
                                    f.args[a])
       /\ (/\ thr[t].status = "returned"
           /\ thr[t].request.function_name \in Halves
           /\ Supported(t)) =>
             FromTheOneEntry(thr[t].request.quadrature,
                             thr[t].request.num_points,
                             thr[t].request.function_name, thr[t].result)

\* Both halves are in use for one N: the Gauss grid-to-spectral generator
\* holds the weights that quadrature_weights returned, the spectral-to-grid
\* generator it then asked for holds the points that collocation_points
\* returned for the same N, and the points differ from the weights.
C21_Witness ==
  \E t \in Threads : \E p, r \in DOMAIN thr[t].stack :
     LET f == thr[t].stack[p]
         g == thr[t].stack[r]
     IN  /\ f.kind = "init" /\ g.kind = "init"
         /\ f.quadrature = g.quadrature
         /\ f.num_points = g.num_points
         /\ f.args # <<>> /\ f.order[1] = "quadrature_weights"
         /\ g.args # <<>> /\ g.order[1] = "collocation_points"
         /\ f.args[1].defined /\ g.args[1].defined
         /\ f.args[1] # g.args[1]
         /\ invocations[PointsAndWeights(f.quadrature)][f.num_points] = 1

\* The constructor has been called.
Called == wedge_section_torus.options # <<>>

\* The constructor has raised a parse error.
Raised == wedge_section_torus.parse_error # "none"

\* The names of the nine fields of the option holder.
Fields ==
  {"min_radius", "max_radius", "min_theta", "max_theta",
   "number_of_radial_points", "number_of_theta_points",
   "number_of_phi_points", "use_uniform_radial_grid",
   "use_uniform_theta_grid"}

\* C22: the constructor of WedgeSectionTorus raises a parse error exactly
\* when min_radius >= max_radius or min_theta >= max_theta, and then no
\* holder comes to be; for every other input, a NaN among them, the holder
\* is constructed and each of its nine fields holds the value passed in.
C22_ParseErrorExactlyOnEmptyRange ==
  Called =>
    LET passed == wedge_section_torus.options
    IN  /\ Raised <=>
              \/ GreaterEqual(passed.min_radius, passed.max_radius)
              \/ GreaterEqual(passed.min_theta, passed.max_theta)
        /\ Raised => ~wedge_section_torus.constructed
        /\ ~Raised =>
             /\ wedge_section_torus.constructed
             /\ DOMAIN wedge_section_torus.holder = Fields
             /\ \A f \in Fields : wedge_section_torus.holder[f] = passed[f]

\* The radii are in order and the two angles are equal: the constructor
\* has raised the parse error of the second check.
C22_Witness ==
  /\ Called
  /\ Raised
  /\ ~GreaterEqual(wedge_section_torus.options.min_radius,
                   wedge_section_torus.options.max_radius)
  /\ wedge_section_torus.options.min_theta =
       wedge_section_torus.options.max_theta
  /\ IsFinite(wedge_section_torus.options.min_theta)

=============================================================================
